---- MODULE Spec2Model ----
(***************************************************************************)
(* State-machine model of the flipkart_scanner order store (src/app.py),   *)
(* its SKU registry (src/db.py) and the per-order document composition     *)
(* (src/processor.py).                                                     *)
(*                                                                         *)
(* Text (scan codes, SKUs, unit tokens) is modelled as sequences of        *)
(* one-character strings so that strip/upper/regex/zero-padding are        *)
(* computed the way the code computes them.                                *)
(***************************************************************************)
EXTENDS Integers, Sequences, FiniteSets, TLC

VARIABLES
    sku_master, \* db._sku_info types as loaded from data/sku_master.csv: sku -> type
    extras_noscan, \* db._extras_noscan as loaded from data/extras_noscan.csv
    orders,     \* db["orders"] as persisted in out/orders.json (list of order records)
    uploaded,   \* page count of out/uploaded.pdf, 0 when the file does not exist
    outFiles,   \* generated PDFs in out/: file name -> page sequence
    resp,       \* the response of the last request handled
    fin,        \* input of the pure function under check (parse / merge specs)
    fout        \* its output

vars == <<sku_master, extras_noscan, orders, uploaded, outFiles, resp, fin, fout>>

\* ------------------------------------------------------------------ bounds
MaxQty    == 2      \* largest quantity a parsed line item carries
MaxDocs   == 3      \* documents handed to one merge
MaxPages  == 2      \* pages of one document handed to a merge
MaxCopies == 3      \* largest labels / invoices count of a print rule
MaxClip   == 7      \* largest width / height of a clip region, in units of 100 pt
MaxUploads == 2     \* uploads whose documents are told apart

\* ------------------------------------------------------------------ text
Range(s) == { s[i] : i \in 1..Len(s) }

LowerLetters == <<"a","b","c","d","e","f","g","h","i","j","k","l","m",
                  "n","o","p","q","r","s","t","u","v","w","x","y","z">>
UpperLetters == <<"A","B","C","D","E","F","G","H","I","J","K","L","M",
                  "N","O","P","Q","R","S","T","U","V","W","X","Y","Z">>
DigitChars   == <<"0","1","2","3","4","5","6","7","8","9">>
Whitespace   == {" ", "\t", "\n"}

LowerSet  == Range(LowerLetters)
LetterSet == Range(UpperLetters) \cup Range(LowerLetters)
DigitSet  == Range(DigitChars)

IsDigit(c)  == c \in DigitSet
IsLetter(c) == c \in LetterSet
DigitVal(c) == (CHOOSE i \in 1..10 : DigitChars[i] = c) - 1

\* str.upper() on one character
UpperChar(c) ==
    IF c \in LowerSet
    THEN UpperLetters[CHOOSE i \in 1..26 : LowerLetters[i] = c]
    ELSE c

\* str.upper()
Upper(s) == [ i \in 1..Len(s) |-> UpperChar(s[i]) ]

\* str.strip()
RECURSIVE LStrip(_)
LStrip(s) == IF s # <<>> /\ Head(s) \in Whitespace THEN LStrip(Tail(s)) ELSE s
RECURSIVE RStrip(_)
RStrip(s) ==
    IF s # <<>> /\ s[Len(s)] \in Whitespace THEN RStrip(SubSeq(s, 1, Len(s) - 1)) ELSE s
Strip(s) == RStrip(LStrip(s))

\* int(digits)
RECURSIVE DigitsToInt(_)
DigitsToInt(ds) ==
    IF ds = <<>> THEN 0
    ELSE 10 * DigitsToInt(SubSeq(ds, 1, Len(ds) - 1)) + DigitVal(ds[Len(ds)])

\* the decimal digits of n, most significant first (str(n) for n >= 0)
RECURSIVE IntToDigits(_)
IntToDigits(n) ==
    IF n < 10 THEN <<DigitChars[n + 1]>>
    ELSE Append(IntToDigits(n \div 10), DigitChars[(n % 10) + 1])

\* f"{n:04d}": zero-padded to width 4, never truncated
RECURSIVE PadLeft(_, _)
PadLeft(ds, width) == IF Len(ds) >= width THEN ds ELSE PadLeft(<<"0">> \o ds, width)
Pad4(n) == PadLeft(IntToDigits(n), 4)

AllDigits(s) == \A i \in 1..Len(s) : IsDigit(s[i])

\* (AT\d{4}) at the start of s, re.IGNORECASE
SkuPrefixMatches(s) ==
    /\ Len(s) >= 6
    /\ UpperChar(s[1]) = "A"
    /\ UpperChar(s[2]) = "T"
    /\ AllDigits(SubSeq(s, 3, 6))

\* re.match(r"^(AT\d{4})$", code_raw, re.IGNORECASE)
SkuOnlyMatch(s) == Len(s) = 6 /\ SkuPrefixMatches(s)

Separators == {"-", "_", ":"}

\* what follows the SKU in a compound code once the optional separator is consumed
AfterSeparator(s) ==
    LET rest == SubSeq(s, 7, Len(s))
    IN IF rest # <<>> /\ Head(rest) \in Separators THEN Tail(rest) ELSE rest

\* re.match(r"^(AT\d{4})[-_:]?([A-Z])(\d{1,4})$", code_raw, re.IGNORECASE)
CompoundMatch(s) ==
    /\ SkuPrefixMatches(s)
    /\ LET unit == AfterSeparator(s)
       IN /\ Len(unit) >= 2
          /\ Len(unit) <= 5
          /\ IsLetter(Head(unit))
          /\ AllDigits(Tail(unit))

\* ------------------------------------------------------------------ SKU registry (src/db.py)
AT0001 == <<"A","T","0","0","0","1">>
AT0002 == <<"A","T","0","0","0","2">>
AT0003 == <<"A","T","0","0","0","3">>
AT0009 == <<"A","T","0","0","0","9">>

\* data/sku_master.csv as _load_sku_master may find it: AT0002 is Compulsory,
\* AT0001 is Loose in one master file and Compulsory in the other
SkuMasters ==
    { (AT0001 :> t) @@ (AT0002 :> "Compulsory") : t \in {"Loose", "Compulsory"} }

\* data/extras_noscan.csv as _load_extras_noscan may find it: AT0003 listed or not
ExtrasSets == { {}, {AT0003} }

\* get_sku_info(sku).type: the master type, "Loose" for a SKU known only from
\* extras_noscan.csv or synthesized on first lookup
GetSkuType(sku) ==
    LET key == Upper(Strip(sku))
    IN IF key \in DOMAIN sku_master THEN sku_master[key] ELSE "Loose"

\* is_noscan_sku(sku)
IsNoscanSku(sku) == Upper(Strip(sku)) \in extras_noscan

\* ------------------------------------------------------------------ scan code parsing (src/app.py scan)
NoPid == <<>>       \* product_id = None

\* product_id = f"{letter}{int(digits):04d}"
\* ProductId without the int(...):04d re-formatting of line 186
ProductIdUnpadded(letter, digits) == <<letter>> \o digits

ProductId(letter, digits) == <<letter>> \o Pad4(DigitsToInt(digits))

\* ParseCode without the Compulsory rejection of lines 169-174
ParseCodeNoCompulsory(raw) ==
    LET code_raw == Upper(Strip(raw))
    IN IF code_raw = <<>>
       THEN [kind |-> "empty", sku |-> <<>>, product_id |-> NoPid]
       ELSE IF SkuOnlyMatch(code_raw)
       THEN [kind |-> "ok", sku |-> Upper(SubSeq(code_raw, 1, 6)), product_id |-> NoPid]
       ELSE IF ~CompoundMatch(code_raw)
       THEN [kind |-> "invalid", sku |-> <<>>, product_id |-> NoPid]
       ELSE LET unit == AfterSeparator(code_raw)
            IN [kind       |-> "ok",
                sku        |-> Upper(SubSeq(code_raw, 1, 6)),
                product_id |-> <<Head(unit)>> \o Pad4(DigitsToInt(Tail(unit)))]

\* Lines 157-188 of scan: the outcome of reading the code, before the store is touched.
\*   kind "empty"       400 "No barcode provided"
\*   kind "compulsory"  400 "SKU ... is Compulsory - scan with product id"
\*   kind "invalid"     400 "Invalid code format"
\*   kind "ok"          sku and product_id (NoPid for a bare SKU) resolved
ParseCode(raw) ==
    LET code_raw == Upper(Strip(raw))
    IN IF code_raw = <<>>
       THEN [kind |-> "empty", sku |-> <<>>, product_id |-> NoPid]
       ELSE IF SkuOnlyMatch(code_raw)
       THEN LET sku == Upper(SubSeq(code_raw, 1, 6))
            IN IF GetSkuType(sku) = "Compulsory"
               THEN [kind |-> "compulsory", sku |-> sku, product_id |-> NoPid]
               ELSE [kind |-> "ok", sku |-> sku, product_id |-> NoPid]
       ELSE IF ~CompoundMatch(code_raw)
       THEN [kind |-> "invalid", sku |-> <<>>, product_id |-> NoPid]
       ELSE LET unit == AfterSeparator(code_raw)
            IN [kind       |-> "ok",
                sku        |-> Upper(SubSeq(code_raw, 1, 6)),
                product_id |-> ProductId(Head(unit), Tail(unit))]

\* ------------------------------------------------------------------ tokens
\* f"SCAN-{sku}-{token_idx:04d}"
ScanToken(sku, token_idx) == <<"S","C","A","N","-">> \o sku \o <<"-">> \o Pad4(token_idx)
\* f"BULK-{sku}-{token_idx:04d}"
BulkToken(sku, token_idx) == <<"B","U","L","K","-">> \o sku \o <<"-">> \o Pad4(token_idx)

\* ------------------------------------------------------------------ completion (src/app.py _is_order_complete)
\* ItemsComplete without the "Extras: never block completion" skip of lines 136-138
RECURSIVE ItemsCompleteNoExempt(_, _)
ItemsCompleteNoExempt(items, j) ==
    IF j > Len(items) THEN TRUE
    ELSE IF Len(items[j].product_ids) < items[j].qty THEN FALSE
    ELSE ItemsCompleteNoExempt(items, j + 1)

RECURSIVE ItemsComplete(_, _)
ItemsComplete(items, j) ==
    IF j > Len(items) THEN TRUE
    ELSE IF IsNoscanSku(Upper(items[j].sku)) THEN ItemsComplete(items, j + 1)
    ELSE IF Len(items[j].product_ids) < items[j].qty THEN FALSE
    ELSE ItemsComplete(items, j + 1)

IsOrderComplete(o) == ItemsComplete(o.items, 1)

\* ------------------------------------------------------------------ document composition
\* def slice_and_build_order_pdf(source_pdf, page_index, out_pdf)
SliceParams == {"source_pdf", "page_index", "out_pdf"}
\* the keyword arguments both handlers pass to slice_and_build_order_pdf
ComposeKwargs == {"source_pdf", "page_index", "out_pdf", "labels", "invoices"}

\* The body of slice_and_build_order_pdf opens the source and loads the page:
\* it raises when out/uploaded.pdf is missing or has no such page.
SliceBodyError(page_index, pages) ==
    IF pages = 0 THEN "FileNotFound"
    ELSE IF page_index >= pages THEN "PageNotInDocument"
    ELSE "none"

\* ComposeError for a call that binds: only the body of the function can raise
ComposeErrorBodyOnly(kwargs, page_index, pages) == SliceBodyError(page_index, pages)

\* The call as made at the call site: Python raises TypeError for a keyword the
\* function does not declare, before the body runs.
ComposeError(kwargs, page_index, pages) ==
    IF ~(kwargs \subseteq SliceParams) THEN "TypeError"
    ELSE SliceBodyError(page_index, pages)

\* the pages slice_and_build_order_pdf writes: label, invoice, invoice
BuiltPages(order_id) == << <<"label", order_id>>, <<"invoice", order_id>>, <<"invoice", order_id>> >>

OutPdfName(order_id) == <<"order", order_id>>
BulkPdfName(sku)     == <<"bulk", sku>>

\* ------------------------------------------------------------------ scan matching (src/app.py scan, lines 190-258)
\* The inner loop "for it in o['items']" from item j on: the first item that
\* takes the unit is changed and the loop breaks.
\* ScanItems without the "Extras/NoScan: ignore scans" skip of lines 204-206
RECURSIVE ScanItemsNoExemptSkip(_, _, _, _, _)
ScanItemsNoExemptSkip(items, j, sku, product_id, infoType) ==
    IF j > Len(items) THEN [items |-> items, updated |-> FALSE]
    ELSE LET it == items[j]
             next == ScanItemsNoExemptSkip(items, j + 1, sku, product_id, infoType)
         IN IF Upper(it.sku) # sku THEN next
            ELSE IF Len(it.product_ids) >= it.qty THEN next
            ELSE IF infoType = "Loose" /\ product_id = NoPid
            THEN [items |-> [items EXCEPT ![j].product_ids =
                                Append(@, ScanToken(sku, Len(it.product_ids) + 1))],
                  updated |-> TRUE]
            ELSE IF product_id \notin Range(it.product_ids)
            THEN [items |-> [items EXCEPT ![j].product_ids = Append(@, product_id)],
                  updated |-> TRUE]
            ELSE next

\* ScanItems without the "product_id not in it['product_ids']" test of line 226
RECURSIVE ScanItemsNoDupCheck(_, _, _, _, _)
ScanItemsNoDupCheck(items, j, sku, product_id, infoType) ==
    IF j > Len(items) THEN [items |-> items, updated |-> FALSE]
    ELSE LET it == items[j]
             next == ScanItemsNoDupCheck(items, j + 1, sku, product_id, infoType)
         IN IF Upper(it.sku) # sku THEN next
            ELSE IF IsNoscanSku(sku) THEN next
            ELSE IF Len(it.product_ids) >= it.qty THEN next
            ELSE IF infoType = "Loose" /\ product_id = NoPid
            THEN [items |-> [items EXCEPT ![j].product_ids =
                                Append(@, ScanToken(sku, Len(it.product_ids) + 1))],
                  updated |-> TRUE]
            ELSE [items |-> [items EXCEPT ![j].product_ids = Append(@, product_id)],
                  updated |-> TRUE]

\* ScanItems without the "already full, skip" test of lines 214-216
RECURSIVE ScanItemsNoFullCheck(_, _, _, _, _)
ScanItemsNoFullCheck(items, j, sku, product_id, infoType) ==
    IF j > Len(items) THEN [items |-> items, updated |-> FALSE]
    ELSE LET it == items[j]
             next == ScanItemsNoFullCheck(items, j + 1, sku, product_id, infoType)
         IN IF Upper(it.sku) # sku THEN next
            ELSE IF IsNoscanSku(sku) THEN next
            ELSE IF infoType = "Loose" /\ product_id = NoPid
            THEN [items |-> [items EXCEPT ![j].product_ids =
                                Append(@, ScanToken(sku, Len(it.product_ids) + 1))],
                  updated |-> TRUE]
            ELSE IF product_id \notin Range(it.product_ids)
            THEN [items |-> [items EXCEPT ![j].product_ids = Append(@, product_id)],
                  updated |-> TRUE]
            ELSE next

RECURSIVE ScanItems(_, _, _, _, _)
ScanItems(items, j, sku, product_id, infoType) ==
    IF j > Len(items) THEN [items |-> items, updated |-> FALSE]
    ELSE LET it == items[j]
             next == ScanItems(items, j + 1, sku, product_id, infoType)
         IN IF Upper(it.sku) # sku THEN next
            ELSE IF IsNoscanSku(sku) THEN next
            ELSE IF Len(it.product_ids) >= it.qty THEN next
            ELSE IF infoType = "Loose" /\ product_id = NoPid
            THEN [items |-> [items EXCEPT ![j].product_ids =
                                Append(@, ScanToken(sku, Len(it.product_ids) + 1))],
                  updated |-> TRUE]
            ELSE IF product_id \notin Range(it.product_ids)
            THEN [items |-> [items EXCEPT ![j].product_ids = Append(@, product_id)],
                  updated |-> TRUE]
            ELSE next

\* Lines 233-251: the order that took the unit is evaluated and, when complete, composed.
AfterUpdate(o, pages) ==
    IF ~IsOrderComplete(o) THEN [order |-> o, completed |-> "none"]
    ELSE LET err == ComposeError(ComposeKwargs, o.page_index, pages)
         IN IF err = "none"
            THEN [order |-> [o EXCEPT !.status = "ready", !.out_pdf = TRUE],
                  completed |-> o.order_id]
            ELSE [order |-> [o EXCEPT !.status = "error", !.error = err],
                  completed |-> "none"]

\* ScanOrders without the "break  # we handled this scan" of line 251
RECURSIVE ScanOrdersNoBreak(_, _, _, _, _, _)
ScanOrdersNoBreak(db, i, sku, product_id, infoType, pages) ==
    IF i > Len(db) THEN [orders |-> db, updated |-> FALSE, completed |-> "none", touched |-> 0]
    ELSE IF db[i].status # "pending"
    THEN ScanOrdersNoBreak(db, i + 1, sku, product_id, infoType, pages)
    ELSE LET r == ScanItems(db[i].items, 1, sku, product_id, infoType)
         IN IF r.updated
            THEN LET a == AfterUpdate([db[i] EXCEPT !.items = r.items], pages)
                     rest == ScanOrdersNoBreak([db EXCEPT ![i] = a.order], i + 1, sku,
                                               product_id, infoType, pages)
                 IN [orders    |-> rest.orders,
                     updated   |-> TRUE,
                     completed |-> a.completed,
                     touched   |-> i]
            ELSE ScanOrdersNoBreak(db, i + 1, sku, product_id, infoType, pages)

\* The outer loop "for o in db['orders']" from order i on.
RECURSIVE ScanOrders(_, _, _, _, _, _)
ScanOrders(db, i, sku, product_id, infoType, pages) ==
    IF i > Len(db) THEN [orders |-> db, updated |-> FALSE, completed |-> "none", touched |-> 0]
    ELSE IF db[i].status # "pending"
    THEN ScanOrders(db, i + 1, sku, product_id, infoType, pages)
    ELSE LET r == ScanItems(db[i].items, 1, sku, product_id, infoType)
         IN IF r.updated
            THEN LET a == AfterUpdate([db[i] EXCEPT !.items = r.items], pages)
                 IN [orders    |-> [db EXCEPT ![i] = a.order],
                     updated   |-> TRUE,
                     completed |-> a.completed,
                     touched   |-> i]
            ELSE ScanOrders(db, i + 1, sku, product_id, infoType, pages)

\* files in out/ after writing one
WriteFile(files, name, content) ==
    [ n \in (DOMAIN files) \cup {name} |-> IF n = name THEN content ELSE files[n] ]

NoFiles == [ n \in {} |-> <<>> ]

\* The whole scan handler on store db: the store it saves, the files it leaves
\* and the response it returns.
ScanResult(db, files, pages, raw) ==
    LET p == ParseCode(raw)
    IN IF p.kind # "ok"
       THEN [orders |-> db, files |-> files,
             resp |-> [op |-> "scan", http |-> 400, ok |-> FALSE, completed_order |-> "none"]]
       ELSE LET r == ScanOrders(db, 1, p.sku, p.product_id, GetSkuType(p.sku), pages)
            IN [orders |-> r.orders,
                files  |-> IF r.completed = "none" THEN files
                           ELSE WriteFile(files, OutPdfName(r.completed), BuiltPages(r.completed)),
                resp   |-> [op |-> "scan", http |-> 200, ok |-> r.updated,
                            completed_order |-> r.completed]]

\* ------------------------------------------------------------------ ingest (src/app.py upload)
NoParse == [order_id |-> "none", items |-> <<>>]    \* parse_order_page returned nothing

\* orders_by_id = {o["order_id"]: o for o in db["orders"]}: the last record of each id
OrdersById(db) ==
    [ id \in { db[i].order_id : i \in 1..Len(db) } |->
        CHOOSE i \in 1..Len(db) :
            /\ db[i].order_id = id
            /\ \A k \in (i + 1)..Len(db) : db[k].order_id # id ]

\* lines 64-74: the line items built from a parsed page
BuildItems(parsed) ==
    [ k \in 1..Len(parsed.items) |->
        [sku |-> parsed.items[k].sku, qty |-> parsed.items[k].qty, product_ids |-> <<>>] ]

\* by_sku = {it["sku"]: it for it in existing["items"]}: the last item of each SKU
BySku(items) ==
    [ s \in { items[j].sku : j \in 1..Len(items) } |->
        CHOOSE j \in 1..Len(items) :
            /\ items[j].sku = s
            /\ \A k \in (j + 1)..Len(items) : items[k].sku # s ]

\* MergeItems with the parsed quantity stored in place of max(stored, parsed)
RECURSIVE MergeItemsLatestWins(_, _, _, _)
MergeItemsLatestWins(existing, by_sku, items, k) ==
    IF k > Len(items) THEN existing
    ELSE LET it == items[k]
         IN IF it.sku \in DOMAIN by_sku
            THEN MergeItemsLatestWins([existing EXCEPT ![by_sku[it.sku]].qty = it.qty],
                                      by_sku, items, k + 1)
            ELSE MergeItemsLatestWins(Append(existing, it), by_sku, items, k + 1)

\* lines 93-98: merge the parsed items, from the k-th on, into the existing ones
RECURSIVE MergeItems(_, _, _, _)
MergeItems(existing, by_sku, items, k) ==
    IF k > Len(items) THEN existing
    ELSE LET it == items[k]
         IN IF it.sku \in DOMAIN by_sku
            THEN MergeItems(
                    [existing EXCEPT ![by_sku[it.sku]].qty =
                        IF @ >= it.qty THEN @ ELSE it.qty],
                    by_sku, items, k + 1)
            ELSE MergeItems(Append(existing, it), by_sku, items, k + 1)

\* lines 63-100: one parsed page, page_num, applied to the store
IngestPage(db, orders_by_id, page_num, parsed) ==
    IF parsed = NoParse THEN db
    ELSE IF parsed.order_id \in DOMAIN orders_by_id
    THEN LET i == orders_by_id[parsed.order_id]
         IN [db EXCEPT ![i] =
                [@ EXCEPT !.page_index = page_num,
                          !.items = MergeItems(db[i].items, BySku(db[i].items),
                                               BuildItems(parsed), 1)]]
    ELSE Append(db, [order_id   |-> parsed.order_id,
                     page_index |-> page_num,
                     status     |-> "pending",
                     items      |-> BuildItems(parsed),
                     out_pdf    |-> FALSE,
                     error      |-> "none"])

\* lines 55-100: the pages of the uploaded document from page_num on
RECURSIVE UploadPages(_, _, _, _)
UploadPages(db, orders_by_id, doc, page_num) ==
    IF page_num >= Len(doc) THEN db
    ELSE UploadPages(IngestPage(db, orders_by_id, page_num, doc[page_num + 1]),
                     orders_by_id, doc, page_num + 1)

\* the store the upload handler saves
UploadResult(db, doc) == UploadPages(db, OrdersById(db), doc, 0)

\* ------------------------------------------------------------------ merge (src/app.py bulk_print, lines 335-347)
\* One input of the merge: its pages, whether reading it raises, and how many
\* of its pages were added when it did (added = 0: PdfReader(path) itself
\* raises; added = k > 0: the k+1-th add_page raises).
\* The pages one document leaves in the writer (the try block of lines 339-344).
AddedPages(d) == IF d.raises THEN SubSeq(d.pages, 1, d.added) ELSE d.pages

\* for path in pdf_paths: ... ; the writer's pages after the loop, from document k on
RECURSIVE MergeFrom(_, _)
MergeFrom(docs, k) ==
    IF k > Len(docs) THEN <<>> ELSE AddedPages(docs[k]) \o MergeFrom(docs, k + 1)

MergePdfs(docs) == MergeFrom(docs, 1)

\* ------------------------------------------------------------------ bulk fulfil (src/app.py bulk_print)
\* lines 302-306: the loop appends BULK-<sku>-<len+1> only when it is absent;
\* when it is present the loop makes no progress (hung).
\* the fill loop with the ordinal token_idx taken once, before the loop
RECURSIVE BulkFillWith(_, _, _, _)
BulkFillWith(product_ids, qty, sku, token_idx) ==
    IF Len(product_ids) >= qty THEN [product_ids |-> product_ids, hung |-> FALSE]
    ELSE IF BulkToken(sku, token_idx) \notin Range(product_ids)
    THEN BulkFillWith(Append(product_ids, BulkToken(sku, token_idx)), qty, sku, token_idx)
    ELSE [product_ids |-> product_ids, hung |-> TRUE]

BulkFillStaleOrdinal(product_ids, qty, sku) ==
    BulkFillWith(product_ids, qty, sku, Len(product_ids) + 1)

RECURSIVE BulkFill(_, _, _)
BulkFill(product_ids, qty, sku) ==
    IF Len(product_ids) >= qty THEN [product_ids |-> product_ids, hung |-> FALSE]
    ELSE LET token == BulkToken(sku, Len(product_ids) + 1)
         IN IF token \notin Range(product_ids)
            THEN BulkFill(Append(product_ids, token), qty, sku)
            ELSE [product_ids |-> product_ids, hung |-> TRUE]

\* BulkEligible without the "len(o['items']) != 1" test of line 289
BulkEligibleAnyLength(o, sku) == Len(o.items) >= 1 /\ Upper(o.items[1].sku) = sku

\* lines 289-294: the orders bulk_print works on
BulkEligible(o, sku) == Len(o.items) = 1 /\ Upper(o.items[1].sku) = sku

\* lines 296-326 for one eligible order
BulkOne(o, sku, pages) ==
    LET f == BulkFill(o.items[1].product_ids, o.items[1].qty, sku)
        filled == [o EXCEPT !.items[1].product_ids = f.product_ids]
        err == ComposeError(ComposeKwargs, o.page_index, pages)
    IN IF f.hung THEN [order |-> o, built |-> FALSE, hung |-> TRUE]
       ELSE IF err = "none"
       THEN [order |-> [filled EXCEPT !.status = "ready", !.out_pdf = TRUE],
             built |-> TRUE, hung |-> FALSE]
       ELSE [order |-> [filled EXCEPT !.status = "error", !.error = err],
             built |-> FALSE, hung |-> FALSE]

\* lines 287-326: the loop over the store from order i on
RECURSIVE BulkOrders(_, _, _, _, _, _)
BulkOrders(db, i, sku, pages, files, pdf_paths) ==
    IF i > Len(db)
    THEN [orders |-> db, files |-> files, pdf_paths |-> pdf_paths, hung |-> FALSE]
    ELSE IF ~BulkEligible(db[i], sku)
    THEN BulkOrders(db, i + 1, sku, pages, files, pdf_paths)
    ELSE LET b == BulkOne(db[i], sku, pages)
         IN IF b.hung
            THEN [orders |-> db, files |-> files, pdf_paths |-> pdf_paths, hung |-> TRUE]
            ELSE IF b.built
            THEN BulkOrders([db EXCEPT ![i] = b.order], i + 1, sku, pages,
                            WriteFile(files, OutPdfName(db[i].order_id),
                                      BuiltPages(db[i].order_id)),
                            Append(pdf_paths, OutPdfName(db[i].order_id)))
            ELSE BulkOrders([db EXCEPT ![i] = b.order], i + 1, sku, pages, files, pdf_paths)

\* The whole bulk_print handler.
BulkResult(db, files, pages, raw) ==
    LET sku == Upper(Strip(raw))
    IN IF sku = <<>>
       THEN [orders |-> db, files |-> files,
             resp |-> [op |-> "bulk", http |-> 400, ok |-> FALSE, completed_order |-> "none"]]
       ELSE LET r == BulkOrders(db, 1, sku, pages, files, <<>>)
            IN IF r.hung
               THEN [orders |-> db, files |-> r.files,
                     resp |-> [op |-> "bulk", http |-> 0, ok |-> FALSE,
                               completed_order |-> "none"]]
               ELSE IF Len(r.pdf_paths) = 0
               THEN [orders |-> r.orders, files |-> r.files,
                     resp |-> [op |-> "bulk", http |-> 404, ok |-> FALSE,
                               completed_order |-> "none"]]
               ELSE [orders |-> r.orders,
                     files  |-> WriteFile(r.files, BulkPdfName(sku),
                                    MergePdfs([ k \in 1..Len(r.pdf_paths) |->
                                        [pages |-> r.files[r.pdf_paths[k]], raises |-> FALSE,
                                         added |-> 0] ])),
                     resp   |-> [op |-> "bulk", http |-> 200, ok |-> TRUE,
                                 completed_order |-> "none"]]

\* ------------------------------------------------------------------ inputs
Qtys == 1..MaxQty

\* what parse_order_page finds on a page.  Order O1 carries AT0001 in any
\* quantity, alone or with one unit of AT0003, or nothing; order O2 carries one
\* unit of AT0001.
RichItems ==
    {<<>>}
    \cup { <<[sku |-> AT0001, qty |-> q]>> : q \in Qtys }
    \cup { <<[sku |-> AT0001, qty |-> q], [sku |-> AT0003, qty |-> 1]>> : q \in Qtys }

ParsedPages ==
    { [order_id |-> "O1", items |-> it] : it \in RichItems }
    \cup { [order_id |-> "O2", items |-> <<[sku |-> AT0001, qty |-> 1]>>] }

\* uploaded documents: one page, recognised or not
UploadDocs == { <<p>> : p \in ParsedPages \cup {NoParse} }

sp == <<" ">>
\* scanned codes: bare SKUs, compound codes in several spellings, malformed codes
ScanCodes ==
    { AT0001,
      AT0002,
      AT0003,
      AT0009,
      <<"a","t","0","0","0","1","-","a","1">> \o sp,
      AT0001 \o <<"_","A","0","0","2">>,
      <<"A","T","0","1">>,
      <<>> }

BulkSkus == { AT0001, <<"a","t","0","0","0","3">> \o sp, AT0009, <<>> }

\* ------------------------------------------------------------------ state machine
\* no result yet of the function under check
Idle == [done |-> FALSE]

NoResp == [op |-> "none", http |-> 0, ok |-> FALSE, completed_order |-> "none"]

Init ==
    /\ sku_master \in SkuMasters
    /\ extras_noscan \in ExtrasSets
    /\ orders = <<>>
    /\ uploaded = 0
    /\ outFiles = NoFiles
    /\ resp = NoResp
    /\ fin = <<>>
    /\ fout = Idle

\* POST /upload
Upload(doc) ==
    /\ orders' = UploadResult(orders, doc)
    /\ uploaded' = Len(doc)
    /\ resp' = [op |-> "upload", http |-> 200, ok |-> TRUE, completed_order |-> "none"]
    /\ UNCHANGED <<sku_master, extras_noscan, outFiles, fin, fout>>

\* POST /scan
Scan(raw) ==
    LET r == ScanResult(orders, outFiles, uploaded, raw)
    IN /\ orders' = r.orders
       /\ outFiles' = r.files
       /\ resp' = r.resp
       /\ UNCHANGED <<sku_master, extras_noscan, uploaded, fin, fout>>

\* POST /bulk_print
BulkPrint(raw) ==
    LET r == BulkResult(orders, outFiles, uploaded, raw)
    IN /\ orders' = r.orders
       /\ outFiles' = r.files
       /\ resp' = r.resp
       /\ UNCHANGED <<sku_master, extras_noscan, uploaded, fin, fout>>

\* POST /clear_all: every *.pdf in out/ is removed, uploaded.pdf included
ClearAll ==
    /\ uploaded' = 0
    /\ outFiles' = NoFiles
    /\ resp' = [op |-> "clear_all", http |-> 200, ok |-> TRUE, completed_order |-> "none"]
    /\ UNCHANGED <<sku_master, extras_noscan, orders, fin, fout>>

Next ==
    \/ \E doc \in UploadDocs : Upload(doc)
    \/ \E raw \in ScanCodes : Scan(raw)
    \/ \E raw \in BulkSkus : BulkPrint(raw)
    \/ ClearAll

Spec == Init /\ [][Next]_vars

\* ------------------------------------------------------------------ properties
OrderIdx == 1..Len(orders)
ItemIdx(o) == 1..Len(o.items)

\* C1: in every reachable state of the store every line item of every order
\* holds at most quantity verified units.
C1_VerifiedWithinQuantity ==
    \A i \in OrderIdx : \A j \in ItemIdx(orders[i]) :
        Len(orders[i].items[j].product_ids) <= orders[i].items[j].qty

\* a pending order keeps a full item next to one still to verify, and a scan
\* has just been answered "no match"
C1_Witness ==
    /\ resp.op = "scan"
    /\ resp.http = 200
    /\ ~resp.ok
    /\ \E i \in OrderIdx :
        /\ orders[i].status = "pending"
        /\ \E j \in ItemIdx(orders[i]) :
            /\ orders[i].items[j].qty = MaxQty
            /\ Len(orders[i].items[j].product_ids) = MaxQty

\* the bare-SKU scan inputs and the SKU each one names
BareCodes == (AT0001 :> AT0001) @@ (AT0002 :> AT0002) @@ (AT0003 :> AT0003) @@ (AT0009 :> AT0009)

\* the positions of the items of order o that still need a unit of sku
NeedingItems(o, sku) ==
    { j \in ItemIdx(o) : o.items[j].sku = sku /\ Len(o.items[j].product_ids) < o.items[j].qty }

\* the pending orders holding a not-yet-full item of sku
NeedingOrders(sku) ==
    { i \in OrderIdx : orders[i].status = "pending" /\ NeedingItems(orders[i], sku) # {} }

Min(S) == CHOOSE x \in S : \A y \in S : x <= y

\* C2: when several pending orders each hold a not-yet-full item of a Loose
\* (scannable, not exempt) SKU, a bare scan of that SKU appends its unit to the
\* first such item of the earliest-inserted of these orders; every other order,
\* and every other item, keeps its verified units.
C2_ScanFifo ==
    \A raw \in DOMAIN BareCodes :
        LET sku == BareCodes[raw]
            need == NeedingOrders(sku)
            r == ScanResult(orders, outFiles, uploaded, raw)
        IN (/\ GetSkuType(sku) = "Loose"
            /\ sku \notin extras_noscan
            /\ Cardinality(need) >= 2)
           => LET m == Min(need)
                  j == Min(NeedingItems(orders[m], sku))
                  before == orders[m].items[j].product_ids
              IN /\ r.resp.ok
                 /\ Len(r.orders) = Len(orders)
                 /\ Len(r.orders[m].items[j].product_ids) = Len(before) + 1
                 /\ SubSeq(r.orders[m].items[j].product_ids, 1, Len(before)) = before
                 /\ \A k \in ItemIdx(orders[m]) \ {j} : r.orders[m].items[k] = orders[m].items[k]
                 /\ \A i \in OrderIdx \ {m} : r.orders[i] = orders[i]

\* two orders needed AT0001: the earlier one took the scanned unit, the later
\* one is still pending and empty
C2_Witness ==
    /\ resp.op = "scan"
    /\ resp.ok
    /\ sku_master[AT0001] = "Loose"
    /\ Len(orders) = 2
    /\ orders[1].status = "pending"
    /\ orders[2].status = "pending"
    /\ orders[1].items[1].sku = AT0001
    /\ orders[2].items[1].sku = AT0001
    /\ orders[1].items[1].product_ids = <<ScanToken(AT0001, 1)>>
    /\ orders[2].items[1].product_ids = <<>>

\* C3: the completion evaluation is true for an order exactly when every item
\* whose SKU is not no-scan-exempt has as many verified units as its quantity;
\* exempt items do not count, whatever they hold.
C3_CompletionIff ==
    \A i \in OrderIdx :
        IsOrderComplete(orders[i])
            <=> \A j \in ItemIdx(orders[i]) :
                    orders[i].items[j].sku \notin extras_noscan
                        => Len(orders[i].items[j].product_ids) = orders[i].items[j].qty

\* a fully verified Compulsory item (2 of 2) beside an exempt item with no
\* verified unit: the order was found complete and left "pending"
C3_Witness ==
    /\ sku_master[AT0001] = "Compulsory"
    /\ AT0003 \in extras_noscan
    /\ \E i \in OrderIdx :
        /\ Len(orders[i].items) = 2
        /\ orders[i].items[1].sku = AT0001
        /\ orders[i].items[1].qty = 2
        /\ Len(orders[i].items[1].product_ids) = 2
        /\ orders[i].items[2].sku = AT0003
        /\ orders[i].items[2].product_ids = <<>>
        /\ IsOrderComplete(orders[i])
        /\ orders[i].status # "pending"

\* codes that match neither ^AT\d{4}$ nor ^AT\d{4}[-_:]?[A-Z]\d{1,4}$
MalformedCodes ==
    { <<>>,
      <<" ">>,
      <<"A","T","0","1">>,
      <<"A","T","0","0","0","1","-">>,
      <<"A","T","0","0","0","1","-","1">>,
      <<"A","T","0","0","0","1","-","A">>,
      <<"A","T","0","0","0","1","-","A","B","1">>,
      <<"A","T","0","0","0","1","-","-","A","1">>,
      <<"A","T","0","0","0","1","/","A","1">>,
      <<"A","T","0","0","0","1","A","0","0","0","0","1">>,
      <<"A","T","0","0","0","1"," ","A","1">>,
      <<"B","T","0","0","0","1">>,
      <<"A","T","0","0","0","0","1">> }

\* bare SKU codes, with the SKU each resolves to
BareSpellings ==
    { [raw |-> AT0001, sku |-> AT0001],
      [raw |-> AT0002, sku |-> AT0002],
      [raw |-> <<"a","t","0","0","0","1">>, sku |-> AT0001],
      [raw |-> <<" ">> \o <<"a","T","0","0","0","2">> \o <<" ">>, sku |-> AT0002] }

\* the scan inputs that are format errors in the current registry
FormatErrorCodes ==
    MalformedCodes
        \cup { b.raw : b \in { c \in BareSpellings :
                                  c.sku \in DOMAIN sku_master /\ sku_master[c.sku] = "Compulsory" } }

\* C4: a scan of a bare code of a Compulsory SKU, or of a code matching neither
\* grammar, is answered as an error (HTTP 400, ok false, no completed order)
\* and leaves the order store and the built documents as they were.
C4_FormatErrorNoMutation ==
    \A raw \in FormatErrorCodes :
        LET r == ScanResult(orders, outFiles, uploaded, raw)
        IN /\ r.resp.http = 400
           /\ ~r.resp.ok
           /\ r.resp.completed_order = "none"
           /\ r.orders = orders
           /\ r.files = outFiles

\* a bare scan was refused while a pending order still needed a unit of the
\* Compulsory SKU AT0001
C4_Witness ==
    /\ resp.op = "scan"
    /\ resp.http = 400
    /\ sku_master[AT0001] = "Compulsory"
    /\ \E i \in OrderIdx :
        /\ orders[i].status = "pending"
        /\ \E j \in ItemIdx(orders[i]) :
            /\ orders[i].items[j].sku = AT0001
            /\ Len(orders[i].items[j].product_ids) < orders[i].items[j].qty

\* ------------------------------------------------------------------ reading of compound codes
\* spellings of a SKU, of the separator, of the unit letter and of the unit digits
SkuSpellings == { AT0001,
                  <<"a","t","0","0","0","1">>,
                  <<"A","t","0","0","0","2">>,
                  <<"a","T","0","0","0","9">> }
SepSpellings == { <<>>, <<"-">>, <<"_">>, <<":">> }
LetterSpellings == { "A", "a", "Q", "z" }
DigitSpellings == { <<"1">>, <<"0">>, <<"0","1">>, <<"1","2">>, <<"0","0","1">>,
                    <<"1","2","0">>, <<"0","0","0","1">>, <<"0","0","0","0">>,
                    <<"0","1","2","0">>, <<"9","9","9","9">> }
Leading  == { <<>>, <<" ">>, <<"\t"," ">> }
Trailing == { <<>>, <<" ">>, <<"\n">> }

CompoundInputs ==
    [sku : SkuSpellings, sep : SepSpellings, letter : LetterSpellings,
     digits : DigitSpellings, lead : Leading, trail : Trailing]

\* the text of the "code" field for one compound input
RawOf(c) == c.lead \o c.sku \o c.sep \o <<c.letter>> \o c.digits \o c.trail

InitParse ==
    /\ sku_master \in SkuMasters
    /\ extras_noscan = {}
    /\ orders = <<>>
    /\ uploaded = 0
    /\ outFiles = NoFiles
    /\ resp = NoResp
    /\ fin \in CompoundInputs
    /\ fout = Idle

\* lines 157-188 of scan applied to the code
ParseStep ==
    /\ ~fout.done
    /\ fout' = [done |-> TRUE, value |-> ParseCode(RawOf(fin))]
    /\ UNCHANGED <<sku_master, extras_noscan, orders, uploaded, outFiles, resp, fin>>

NextParse == ParseStep

SpecParse == InitParse /\ [][NextParse]_vars

\* what each spelling stands for, written out
CanonSku ==
    (AT0001 :> AT0001) @@ (<<"a","t","0","0","0","1">> :> AT0001)
    @@ (<<"A","t","0","0","0","2">> :> AT0002) @@ (<<"a","T","0","0","0","9">> :> AT0009)
CanonLetter == ("A" :> "A") @@ ("a" :> "A") @@ ("Q" :> "Q") @@ ("z" :> "Z")
CanonDigits ==
    (<<"1">> :> <<"0","0","0","1">>) @@ (<<"0">> :> <<"0","0","0","0">>)
    @@ (<<"0","1">> :> <<"0","0","0","1">>) @@ (<<"1","2">> :> <<"0","0","1","2">>)
    @@ (<<"0","0","1">> :> <<"0","0","0","1">>) @@ (<<"1","2","0">> :> <<"0","1","2","0">>)
    @@ (<<"0","0","0","1">> :> <<"0","0","0","1">>) @@ (<<"0","0","0","0">> :> <<"0","0","0","0">>)
    @@ (<<"0","1","2","0">> :> <<"0","1","2","0">>) @@ (<<"9","9","9","9">> :> <<"9","9","9","9">>)

A0001 == <<"A","0","0","0","1">>

\* C5: a compound code <SKU><sep><letter><1-4 digits>, in any letter case and
\* with surrounding whitespace, resolves to the upper-cased SKU and to the
\* token <upper-case letter><digits zero-padded to 4>; at0001-a1, AT0001_A001
\* and AT0001:A0001 all resolve to SKU AT0001, token A0001.
C5_CodeNormalization ==
    /\ fout.done =>
        /\ fout.value.kind = "ok"
        /\ fout.value.sku = CanonSku[fin.sku]
        /\ fout.value.product_id = <<CanonLetter[fin.letter]>> \o CanonDigits[fin.digits]
    /\ \A raw \in { <<"a","t","0","0","0","1","-","a","1">>,
                    AT0001 \o <<"_","A","0","0","1">>,
                    AT0001 \o <<":","A","0","0","0","1">> } :
            /\ ParseCode(raw).kind = "ok"
            /\ ParseCode(raw).sku = AT0001
            /\ ParseCode(raw).product_id = A0001

\* " at0001-a1 " has been read as SKU AT0001, token A0001
C5_Witness ==
    /\ fout.done
    /\ fin = [sku |-> <<"a","t","0","0","0","1">>, sep |-> <<"-">>, letter |-> "a",
              digits |-> <<"1">>, lead |-> <<" ">>, trail |-> <<" ">>]
    /\ fout.value.sku = AT0001
    /\ fout.value.product_id = A0001

\* ------------------------------------------------------------------ re-ingest
\* envelopes to ingest: those of the catalogue and some it does not hold
IngestEnvelopes ==
    ParsedPages
    \cup { [order_id |-> "O1", items |-> <<[sku |-> AT0003, qty |-> 2], [sku |-> AT0001, qty |-> 1]>>],
           [order_id |-> "O1", items |-> <<[sku |-> AT0002, qty |-> 1]>>],
           [order_id |-> "O2", items |-> <<[sku |-> AT0001, qty |-> MaxQty + 1]>>],
           [order_id |-> "O3", items |-> <<[sku |-> AT0001, qty |-> 1]>>] }

\* the quantity the envelope states for sku, 0 when it does not list it
ParsedQty(parsed, sku) ==
    IF \E k \in 1..Len(parsed.items) : parsed.items[k].sku = sku
    THEN (parsed.items[CHOOSE k \in 1..Len(parsed.items) : parsed.items[k].sku = sku]).qty
    ELSE 0

Max(a, b) == IF a >= b THEN a ELSE b

BulkTargets ==
    { [raw |-> AT0001, sku |-> AT0001],
      [raw |-> AT0003, sku |-> AT0003],
      [raw |-> <<" ","a","t","0","0","0","1"," ">>, sku |-> AT0001],
      [raw |-> AT0009, sku |-> AT0009] }

\* C7: bulk fulfilment of a SKU leaves the store the same length and leaves
\* unchanged every order that does not have exactly one line item of that SKU:
\* orders with no item, with two or more items (the target among them or not)
\* and single-item orders of another SKU.
C7_BulkFrame ==
    \A t \in BulkTargets :
        LET r == BulkResult(orders, outFiles, uploaded, t.raw)
        IN /\ Len(r.orders) = Len(orders)
           /\ \A i \in OrderIdx :
                ~(Len(orders[i].items) = 1 /\ orders[i].items[1].sku = t.sku)
                    => r.orders[i] = orders[i]

\* after a bulk fulfilment of AT0001: a single-item order took BULK tokens and
\* a pending two-item order holding AT0001 took none
C7_Witness ==
    /\ resp.op = "bulk"
    /\ \E i \in OrderIdx :
        /\ Len(orders[i].items) = 1
        /\ orders[i].items[1].product_ids = <<BulkToken(AT0001, 1)>>
    /\ \E i \in OrderIdx :
        /\ Len(orders[i].items) = 2
        /\ orders[i].status = "pending"
        /\ orders[i].items[1].sku = AT0001
        /\ orders[i].items[1].product_ids = <<>>

\* ------------------------------------------------------------------ merge of built documents
\* a document of n pages, named d
PagesOf(d, n) == [ k \in 1..n |-> <<d, k>> ]

\* the ways reading a document of n pages can go
ReadOutcomes(n) ==
    { [raises |-> FALSE, added |-> 0] } \cup { [raises |-> TRUE, added |-> a] : a \in 0..(n - 1) }

\* the documents that can stand at position d of pdf_paths
DocsAt(d) ==
    { doc \in { [pages |-> PagesOf(d, n), raises |-> o.raises, added |-> o.added] :
                    n \in 1..MaxPages, o \in ReadOutcomes(MaxPages) } :
        doc.added < Len(doc.pages) }

\* the lists of n documents
RECURSIVE DocLists(_)
DocLists(n) ==
    IF n = 0 THEN { <<>> }
    ELSE { Append(s, doc) : s \in DocLists(n - 1), doc \in DocsAt(n) }

MergeInputs == UNION { DocLists(n) : n \in 1..MaxDocs }

InitMerge ==
    /\ sku_master \in SkuMasters
    /\ extras_noscan = {}
    /\ orders = <<>>
    /\ uploaded = 0
    /\ outFiles = NoFiles
    /\ resp = NoResp
    /\ fin \in MergeInputs
    /\ fout = Idle

\* lines 335-347 of bulk_print applied to pdf_paths
MergeStep ==
    /\ ~fout.done
    /\ fout' = [done |-> TRUE, value |-> MergePdfs(fin)]
    /\ UNCHANGED <<sku_master, extras_noscan, orders, uploaded, outFiles, resp, fin>>

NextMerge == MergeStep

SpecMerge == InitMerge /\ [][NextMerge]_vars

\* the pages of the readable documents of docs, in input order
RECURSIVE ReadablePages(_)
ReadablePages(docs) ==
    IF docs = <<>> THEN <<>>
    ELSE (IF Head(docs).raises THEN <<>> ELSE Head(docs).pages) \o ReadablePages(Tail(docs))

\* C8: the merged document is the concatenation, in input order, of the pages
\* of exactly the documents that could be read; a document that could not be
\* read contributes no page.
C8_MergeIsolation ==
    fout.done => fout.value = ReadablePages(fin)

\* ------------------------------------------------------------------ completion by scan
\* C9: a scan that adds a unit to a pending order and thereby completes it
\* composes the order's document in the same request: when the source document
\* holds the order's page the order becomes "ready", its document is written
\* and the response names it as completed_order; otherwise the order becomes
\* "error" with the failure recorded and no order is named.
C9_CompletingScanComposes ==
    \A raw \in ScanCodes :
        LET r == ScanResult(orders, outFiles, uploaded, raw)
        IN \A i \in OrderIdx :
            (/\ orders[i].status = "pending"
             /\ r.orders[i].items # orders[i].items
             /\ IsOrderComplete(r.orders[i]))
                => IF SliceBodyError(orders[i].page_index, uploaded) = "none"
                   THEN /\ r.orders[i].status = "ready"
                        /\ r.resp.completed_order = orders[i].order_id
                        /\ OutPdfName(orders[i].order_id) \in DOMAIN r.files
                   ELSE /\ r.orders[i].status = "error"
                        /\ r.orders[i].error = SliceBodyError(orders[i].page_index, uploaded)
                        /\ r.resp.completed_order = "none"

\* ------------------------------------------------------------------ status
Statuses == {"pending", "ready", "error"}

NoRule == [present |-> FALSE, labels |-> 0, invoices |-> 0]
PrintRows ==
    { NoRule } \cup { [present |-> TRUE, labels |-> l, invoices |-> v] : l \in 1..2, v \in 0..MaxCopies }

\* _default_labels, _default_invoices after _load_print_rules
DefaultCounts(defaultRow) ==
    IF defaultRow.present THEN [labels |-> defaultRow.labels, invoices |-> defaultRow.invoices]
    ELSE [labels |-> 1, invoices |-> 2]

\* labels, invoices of _sku_info[sku] after load_master_data, for a SKU the
\* registry holds: the row of print_rules.csv, else the SKUInfo defaults
LoadedCounts(row) ==
    IF row.present THEN [labels |-> row.labels, invoices |-> row.invoices]
    ELSE [labels |-> 1, invoices |-> 2]

\* x or d
OrElse(x, d) == IF x = 0 THEN d ELSE x

\* get_print_counts_for_sku(sku): known says whether _sku_info holds the SKU
GetPrintCounts(known, row, defaultRow) ==
    LET def == DefaultCounts(defaultRow)
        loaded == LoadedCounts(row)
        info == IF known
                THEN [labels   |-> IF loaded.labels <= 0 THEN def.labels ELSE loaded.labels,
                      invoices |-> IF loaded.invoices <= 0 THEN def.invoices ELSE loaded.invoices]
                ELSE def
    IN [labels |-> OrElse(info.labels, def.labels), invoices |-> OrElse(info.invoices, def.invoices)]

\* the print-rule files and the SKU of the completed order
ComposeInputs ==
    [sku : {AT0001, AT0002, AT0009}, row : PrintRows, defaultRow : PrintRows]

InitCompose ==
    /\ sku_master \in SkuMasters
    /\ extras_noscan = {}
    /\ orders = <<>>
    /\ uploaded = 1
    /\ outFiles = NoFiles
    /\ resp = NoResp
    /\ fin \in ComposeInputs
    /\ fout = Idle

\* lines 235-236 of scan, then the body of slice_and_build_order_pdf for order O1
ComposeStep ==
    /\ ~fout.done
    /\ fout' = [done  |-> TRUE,
                value |-> [counts |-> GetPrintCounts(fin.sku \in DOMAIN sku_master \/ fin.row.present,
                                                     fin.row, fin.defaultRow),
                           error  |-> SliceBodyError(0, uploaded),
                           pages  |-> BuiltPages("O1")]]
    /\ UNCHANGED <<sku_master, extras_noscan, orders, uploaded, outFiles, resp, fin>>

NextCompose == ComposeStep

SpecCompose == InitCompose /\ [][NextCompose]_vars

\* C11: the document built for an order is one label page followed by as many
\* copies of the invoice page as the invoice count resolved for the SKU.
C11_InvoiceCopies ==
    fout.done =>
        /\ fout.value.error = "none"
        /\ fout.value.pages =
            << <<"label", "O1">> >> \o [ k \in 1..fout.value.counts.invoices |-> <<"invoice", "O1">> ]

\* ------------------------------------------------------------------ uploads of several pages
\* uploaded documents of two pages, each recognised or not
TwoPageDocs == { <<p, q>> : p \in ParsedPages \cup {NoParse}, q \in ParsedPages \cup {NoParse} }

\* C12: order_id is a unique key: whatever document is uploaded next, one in
\* which two pages parse to the same order id included, the store it leaves
\* holds no two records with the same order_id.
C12_UniqueOrderId ==
    /\ \A i \in OrderIdx : \A j \in OrderIdx : orders[i].order_id = orders[j].order_id => i = j
    /\ \A doc \in TwoPageDocs :
        LET s1 == UploadResult(orders, doc)
        IN \A i \in 1..Len(s1) : \A j \in 1..Len(s1) : s1[i].order_id = s1[j].order_id => i = j

\* ------------------------------------------------------------------ scans that match nothing
\* well-formed codes, with the SKU each names and whether it carries a unit token
WellFormedCodes ==
    { [raw |-> AT0001, sku |-> AT0001, bare |-> TRUE],
      [raw |-> AT0003, sku |-> AT0003, bare |-> TRUE],
      [raw |-> AT0009, sku |-> AT0009, bare |-> TRUE],
      [raw |-> <<"a","t","0","0","0","1","-","a","1"," ">>, sku |-> AT0001, bare |-> FALSE],
      [raw |-> AT0001 \o <<"_","A","0","0","2">>, sku |-> AT0001, bare |-> FALSE],
      [raw |-> AT0002 \o <<"-","A","1">>, sku |-> AT0002, bare |-> FALSE],
      [raw |-> AT0003 \o <<":","B","2">>, sku |-> AT0003, bare |-> FALSE],
      [raw |-> AT0009 \o <<"C","3">>, sku |-> AT0009, bare |-> FALSE] }

\* a bare code is a format error when the registry classifies its SKU Compulsory
IsFormatError(c) ==
    c.bare /\ c.sku \in DOMAIN sku_master /\ sku_master[c.sku] = "Compulsory"

\* C13: a well-formed scan that finds no applicable item - its SKU is in no
\* pending order, or every matching item of a pending order is full, or the SKU
\* is no-scan-exempt - is answered with HTTP 200, ok false and no completed
\* order, and leaves the store and the built documents unchanged; in
\* particular a scan of an exempt SKU changes no item.
C13_NoMatchNoMutation ==
    \A c \in WellFormedCodes :
        LET r == ScanResult(orders, outFiles, uploaded, c.raw)
        IN (~IsFormatError(c) /\ (c.sku \in extras_noscan \/ NeedingOrders(c.sku) = {}))
            => /\ r.resp.http = 200
               /\ ~r.resp.ok
               /\ r.resp.completed_order = "none"
               /\ r.orders = orders
               /\ r.files = outFiles

\* the last scan matched nothing: the only order is pending, its AT0001 item is
\* full, its AT0003 item (scannable here) is empty, and no other SKU is ordered
C13_Witness ==
    /\ resp.op = "scan"
    /\ resp.http = 200
    /\ ~resp.ok
    /\ AT0003 \notin extras_noscan
    /\ Len(orders) = 1
    /\ orders[1].status = "pending"
    /\ Len(orders[1].items) = 2
    /\ Len(orders[1].items[1].product_ids) = orders[1].items[1].qty
    /\ orders[1].items[2].product_ids = <<>>

\* ------------------------------------------------------------------ two scan requests in flight
\* app.run(host=..., port=..., debug=True) serves each request on its own
\* thread; the handler holds no lock between _load_db and _save_db.
Requests == {1, 2}

\* stores left by two one-page uploads, no unit verified yet
FreshStores ==
    { UploadResult(UploadResult(<<>>, <<p>>), <<q>>) : p \in ParsedPages, q \in ParsedPages }

ConcCodes ==
    { AT0001, AT0003, <<"a","t","0","0","0","1","-","a","1"," ">>, AT0001 \o <<"_","A","0","0","2">> }

InitConc ==
    /\ sku_master \in SkuMasters
    /\ extras_noscan \in ExtrasSets
    /\ orders \in FreshStores
    /\ uploaded = 1
    /\ outFiles = NoFiles
    /\ resp = NoResp
    /\ fin \in [Requests -> [pc : {"received"}, code : ConcCodes, db : {<<>>}]]
    /\ fout = [t \in Requests |-> Idle]

\* lines 155-192 for request t: the code is read and, when well formed, the
\* store is loaded into the request's own db
ScanLoad(t) ==
    /\ fin[t].pc = "received"
    /\ IF ParseCode(fin[t].code).kind # "ok"
       THEN /\ fin' = [fin EXCEPT ![t].pc = "done"]
            /\ fout' = [fout EXCEPT ![t] =
                  [done |-> TRUE,
                   value |-> [op |-> "scan", http |-> 400, ok |-> FALSE, completed_order |-> "none"]]]
       ELSE /\ fin' = [fin EXCEPT ![t].pc = "loaded", ![t].db = orders]
            /\ fout' = fout
    /\ UNCHANGED <<sku_master, extras_noscan, orders, uploaded, outFiles, resp>>

\* lines 196-258 for request t: match, mutate and compose on the request's
\* db, _save_db when a unit was added, respond
ScanSave(t) ==
    /\ fin[t].pc = "loaded"
    /\ LET r == ScanResult(fin[t].db, outFiles, uploaded, fin[t].code)
       IN /\ orders' = IF r.resp.ok THEN r.orders ELSE orders
          /\ outFiles' = r.files
          /\ resp' = r.resp
          /\ fout' = [fout EXCEPT ![t] = [done |-> TRUE, value |-> r.resp]]
    /\ fin' = [fin EXCEPT ![t].pc = "done"]
    /\ UNCHANGED <<sku_master, extras_noscan, uploaded>>

NextConc ==
    \/ \E t \in Requests : ScanLoad(t)
    \/ \E t \in Requests : ScanSave(t)

SpecConc == InitConc /\ [][NextConc]_vars

\* the number of verified units in the items from the j-th on
RECURSIVE UnitsOfItems(_, _)
UnitsOfItems(items, j) ==
    IF j > Len(items) THEN 0 ELSE Len(items[j].product_ids) + UnitsOfItems(items, j + 1)

\* the number of verified units in the store from the i-th order on
RECURSIVE UnitsOfStore(_, _)
UnitsOfStore(db, i) ==
    IF i > Len(db) THEN 0 ELSE UnitsOfItems(db[i].items, 1) + UnitsOfStore(db, i + 1)

\* C14: scan events do not overlap: once two scans of a store without
\* verified units have both answered ok = true, the persisted store holds
\* both added units, and no item holds more units than its quantity.
C14_NoLostUpdate ==
    (\A t \in Requests : fout[t].done /\ fout[t].value.ok)
        => /\ UnitsOfStore(orders, 1) = 2
           /\ C1_VerifiedWithinQuantity

\* ------------------------------------------------------------------ rendering (src/processor.py, src/config.py)
\* page_width_pt = 85.039 and page_height_pt = 120.425, in thousandths of a point
PAGE_W_PT == 85039
PAGE_H_PT == 120425
\* label_zoom = 1.83, in hundredths
label_zoom == 183
rotate_invoice_deg == 90

\* Numbers are exact fractions n / d.
\* min(PAGE_W_PT / w, PAGE_H_PT / h)
MinScale(w, h) ==
    IF PAGE_W_PT * h <= PAGE_H_PT * w THEN [n |-> PAGE_W_PT, d |-> w] ELSE [n |-> PAGE_H_PT, d |-> h]

\* dest = fitz.Rect(dx, dy, dx + dest_w, dy + dest_h) for content w x h at
\* scale sc, with dx = (PAGE_W_PT - dest_w) / 2 and dy = (PAGE_H_PT - dest_h) / 2.
\* dest_w = dest_w_n / sc.d and dest_h = dest_h_n / sc.d; the corners are over den.
DestRect(w, h, sc) ==
    LET dest_w_n == w * sc.n
        dest_h_n == h * sc.n
    IN [content_w |-> w, content_h |-> h,
        dest_w_n  |-> dest_w_n,
        dest_h_n  |-> dest_h_n,
        den       |-> 2 * sc.d,
        x0        |-> PAGE_W_PT * sc.d - dest_w_n,
        y0        |-> PAGE_H_PT * sc.d - dest_h_n,
        x1        |-> PAGE_W_PT * sc.d + dest_w_n,
        y1        |-> PAGE_H_PT * sc.d + dest_h_n]

\* _render_clip_to_fixed_page: scale = min(...); scale *= CFG.label_zoom
RenderClipToFixedPage(clip_w, clip_h) ==
    LET m == MinScale(clip_w, clip_h)
    IN DestRect(clip_w, clip_h, [n |-> m.n * label_zoom, d |-> m.d * 100])

\* _render_rotated_clip_to_fixed_page
RenderRotatedClipToFixedPage(clip_w, clip_h, rotation_deg) ==
    LET content_w == IF rotation_deg % 180 = 90 THEN clip_h ELSE clip_w
        content_h == IF rotation_deg % 180 = 90 THEN clip_w ELSE clip_h
    IN DestRect(content_w, content_h, MinScale(content_w, content_h))

\* non-degenerate clip regions, sides in units of 100 pt
ClipSides == 1..MaxClip
RenderInputs == [kind : {"label", "invoice"}, clip_w : ClipSides, clip_h : ClipSides]

InitRender ==
    /\ sku_master \in SkuMasters
    /\ extras_noscan = {}
    /\ orders = <<>>
    /\ uploaded = 1
    /\ outFiles = NoFiles
    /\ resp = NoResp
    /\ fin \in RenderInputs
    /\ fout = Idle

\* lines 95 and 98 of slice_and_build_order_pdf: the label or the invoice render
RenderStep ==
    /\ ~fout.done
    /\ fout' = [done  |-> TRUE,
                value |-> IF fin.kind = "label"
                          THEN RenderClipToFixedPage(fin.clip_w, fin.clip_h)
                          ELSE RenderRotatedClipToFixedPage(fin.clip_w, fin.clip_h,
                                                            rotate_invoice_deg)]
    /\ UNCHANGED <<sku_master, extras_noscan, orders, uploaded, outFiles, resp, fin>>

NextRender == RenderStep

SpecRender == InitRender /\ [][NextRender]_vars

\* C15: for the label render and for the invoice render the destination
\* rectangle has the content's aspect ratio (one scale for x and y), is centred
\* on the output page and lies inside [0, page width] x [0, page height].
C15_DestInsidePage ==
    fout.done =>
        LET r == fout.value
        IN /\ r.dest_w_n * r.content_h = r.dest_h_n * r.content_w
           /\ r.x0 + r.x1 = PAGE_W_PT * r.den
           /\ r.y0 + r.y1 = PAGE_H_PT * r.den
           /\ r.x0 >= 0
           /\ r.y0 >= 0
           /\ r.x1 <= PAGE_W_PT * r.den
           /\ r.y1 <= PAGE_H_PT * r.den

\* ------------------------------------------------------------------ frame of one scan
\* every scan input considered: well formed, bare Compulsory, malformed
AllScanInputs == ScanCodes \cup { c.raw : c \in WellFormedCodes } \cup MalformedCodes

\* C16: one scan changes at most one order, and in it exactly one line item,
\* which gains exactly one token at the end of its verified units and keeps
\* its SKU and quantity; only that order may change status; no order is added
\* or removed.
C16_ScanTouchesOneItem ==
    \A raw \in AllScanInputs :
        LET r == ScanResult(orders, outFiles, uploaded, raw)
            changed == { i \in OrderIdx : r.orders[i] # orders[i] }
        IN /\ Len(r.orders) = Len(orders)
           /\ Cardinality(changed) <= 1
           /\ \A i \in changed :
                LET its == { j \in ItemIdx(orders[i]) : r.orders[i].items[j] # orders[i].items[j] }
                IN /\ r.orders[i].order_id = orders[i].order_id
                   /\ Len(r.orders[i].items) = Len(orders[i].items)
                   /\ Cardinality(its) = 1
                   /\ \A j \in its :
                        LET old == orders[i].items[j]
                            new == r.orders[i].items[j]
                        IN /\ new.sku = old.sku
                           /\ new.qty = old.qty
                           /\ Len(new.product_ids) = Len(old.product_ids) + 1
                           /\ SubSeq(new.product_ids, 1, Len(old.product_ids)) = old.product_ids

\* the last scan completed the first of two orders of AT0001 (one unit, status
\* changed) and left the second pending and empty
C16_Witness ==
    /\ resp.op = "scan"
    /\ resp.ok
    /\ Len(orders) = 2
    /\ orders[1].status = "error"
    /\ Len(orders[1].items) = 1
    /\ orders[1].items[1].product_ids = <<ScanToken(AT0001, 1)>>
    /\ orders[2].status = "pending"
    /\ orders[2].items[1].sku = AT0001
    /\ orders[2].items[1].product_ids = <<>>

\* ------------------------------------------------------------------ repeated explicit token
\* compound codes with the SKU and the unit token each stands for
CompoundCodes ==
    { [raw |-> <<"a","t","0","0","0","1","-","a","1"," ">>, sku |-> AT0001, token |-> A0001],
      [raw |-> AT0001 \o <<":","A","0","0","0","1">>, sku |-> AT0001, token |-> A0001],
      [raw |-> AT0001 \o <<"_","A","0","0","2">>, sku |-> AT0001,
       token |-> <<"A","0","0","0","2">>] }

\* C17: when the unit token of a compound code is already among the verified
\* units of the not-yet-full item it matches in the earliest pending order,
\* scanning the code again changes nothing: no item of any order gains a token,
\* no order changes status, and the scan reports no match.
C17_DuplicateTokenNoOp ==
    \A c \in CompoundCodes :
        LET need == NeedingOrders(c.sku)
        IN (/\ c.sku \notin extras_noscan
            /\ need # {}
            /\ LET m == Min(need)
                   j == Min(NeedingItems(orders[m], c.sku))
               IN c.token \in Range(orders[m].items[j].product_ids))
           => LET r == ScanResult(orders, outFiles, uploaded, c.raw)
              IN /\ r.orders = orders
                 /\ ~r.resp.ok

\* ------------------------------------------------------------------ distinct tokens
\* C18: in every reachable state the verified units of each line item are
\* pairwise distinct, whatever mix of explicit tokens, SCAN- tokens and BULK-
\* tokens the item holds and however its quantity was raised.
C18_TokensDistinct ==
    \A i \in OrderIdx : \A j \in ItemIdx(orders[i]) :
        LET ids == orders[i].items[j].product_ids
        IN \A a \in 1..Len(ids) : \A b \in 1..Len(ids) : ids[a] = ids[b] => a = b

\* one item holds a SCAN- token followed by a BULK- token, an item of another
\* order an explicit token
C18_Witness ==
    /\ \E i \in OrderIdx :
        /\ Len(orders[i].items) = 1
        /\ orders[i].items[1].product_ids = <<ScanToken(AT0001, 1), BulkToken(AT0001, 2)>>
    /\ \E i \in OrderIdx :
        /\ Len(orders[i].items) = 1
        /\ orders[i].items[1].product_ids = <<A0001>>

\* ------------------------------------------------------------------ pending and complete
\* envelopes of orders that hold nothing but the SKU AT0003
ExtrasOnlyEnvelopes ==
    { [order_id |-> "O3", items |-> <<[sku |-> AT0003, qty |-> q]>>] : q \in Qtys }

\* every item of o that is not exempt holds as many units as its quantity
AllScannableFull(o) ==
    \A j \in ItemIdx(o) :
        o.items[j].sku \notin extras_noscan => Len(o.items[j].product_ids) = o.items[j].qty

\* C19: at the end of every upload, scan and bulk fulfilment no order that has
\* line items is both pending and complete (all its non-exempt items fully
\* verified); the same holds of the store left by ingesting an order whose only
\* item is exempt.
C19_NoPendingComplete ==
    /\ \A i \in OrderIdx :
        (orders[i].status = "pending" /\ Len(orders[i].items) >= 1) => ~AllScannableFull(orders[i])
    /\ \A parsed \in ExtrasOnlyEnvelopes :
        LET s1 == UploadResult(orders, <<parsed>>)
        IN \A i \in 1..Len(s1) :
            (s1[i].status = "pending" /\ Len(s1[i].items) >= 1) => ~AllScannableFull(s1[i])

\* ------------------------------------------------------------------ termination of the fill loop
\* C20: for every line item of every reachable store the loop that appends
\* BULK-<sku>-<len+1> when absent terminates, with the item holding exactly
\* as many verified units as its quantity and its earlier units kept.
C20_BulkFillTerminates ==
    \A i \in OrderIdx : \A j \in ItemIdx(orders[i]) :
        LET it == orders[i].items[j]
            f == BulkFill(it.product_ids, it.qty, Upper(it.sku))
        IN /\ ~f.hung
           /\ Len(f.product_ids) = it.qty
           /\ SubSeq(f.product_ids, 1, Len(it.product_ids)) = it.product_ids

\* the last bulk fulfilment filled an item that already held an explicit token
C20_Witness ==
    /\ resp.op = "bulk"
    /\ \E i \in OrderIdx :
        /\ Len(orders[i].items) = 1
        /\ orders[i].items[1].product_ids = <<A0001, BulkToken(AT0001, 2)>>

\* ------------------------------------------------------------------ ready orders
\* No reachable store holds an order with status "ready", an out_pdf or a
\* built document: both handlers pass labels= and invoices= to
\* slice_and_build_order_pdf, so every composition raises and the order is
\* marked "error".
ReadyUnreachable ==
    /\ \A i \in OrderIdx : orders[i].status # "ready" /\ ~orders[i].out_pdf
    /\ outFiles = NoFiles

\* every order marked ready is complete
ReadyImpliesComplete ==
    \A i \in OrderIdx : orders[i].status = "ready" => AllScannableFull(orders[i])

\* ------------------------------------------------------------------ the source of a composition
\* Every upload is saved to the one path out/uploaded.pdf (lines 44-45), and
\* every order records that path as pdf_path (line 81).  fin.gen counts the
\* uploads: it names the document the file holds now.  fin.origin[i] is the
\* document and page order i was last parsed from.
InitSource ==
    /\ sku_master \in SkuMasters
    /\ extras_noscan \in ExtrasSets
    /\ orders = <<>>
    /\ uploaded = 0
    /\ outFiles = NoFiles
    /\ resp = NoResp
    /\ fin = [gen |-> 0, origin |-> <<>>]
    /\ fout = Idle

\* the order ids the pages of doc parse to
IdsIn(doc) == { doc[k].order_id : k \in { n \in 1..Len(doc) : doc[n] # NoParse } }

\* POST /upload, the uploaded document being the (gen+1)-th
UploadSource(doc) ==
    /\ fin.gen < MaxUploads
    /\ LET new == UploadResult(orders, doc)
       IN /\ orders' = new
          /\ fin' = [gen    |-> fin.gen + 1,
                     origin |-> [ i \in 1..Len(new) |->
                                    IF i > Len(orders) \/ new[i].order_id \in IdsIn(doc)
                                    THEN [doc |-> fin.gen + 1, page |-> new[i].page_index]
                                    ELSE fin.origin[i] ]]
    /\ uploaded' = Len(doc)
    /\ resp' = [op |-> "upload", http |-> 200, ok |-> TRUE, completed_order |-> "none"]
    /\ UNCHANGED <<sku_master, extras_noscan, outFiles, fout>>

\* POST /scan; when the scan completes an order, fout records the call
\* slice_and_build_order_pdf(source_pdf=o["pdf_path"], page_index=o["page_index"], ...)
\* of lines 238-244: the document the path holds and the page asked for
ScanSource(raw) ==
    LET r == ScanResult(orders, outFiles, uploaded, raw)
        composed == { i \in OrderIdx : orders[i].status = "pending" /\ r.orders[i].status # "pending" }
    IN /\ orders' = r.orders
       /\ outFiles' = r.files
       /\ resp' = r.resp
       /\ fout' = IF composed = {} THEN fout
                  ELSE LET i == CHOOSE k \in composed : TRUE
                       IN [done  |-> TRUE,
                           value |-> [order_id    |-> orders[i].order_id,
                                      source_doc  |-> fin.gen,
                                      page_index  |-> orders[i].page_index,
                                      parsed_doc  |-> fin.origin[i].doc,
                                      parsed_page |-> fin.origin[i].page]]
       /\ UNCHANGED <<sku_master, extras_noscan, uploaded, fin>>

NextSource ==
    \/ \E doc \in UploadDocs : UploadSource(doc)
    \/ \E raw \in ScanCodes : ScanSource(raw)

SpecSource == InitSource /\ [][NextSource]_vars

\* C22: whenever a scan composes an order's document, the source document and
\* page handed to the composition are the document and page the order was
\* parsed from, not those of a document uploaded later.
C22_ComposedFromParsedPage ==
    fout.done =>
        /\ fout.value.source_doc = fout.value.parsed_doc
        /\ fout.value.page_index = fout.value.parsed_page

\* ------------------------------------------------------------------ GET /api/download (src/app.py lines 392-398)
\* The first order of that id with an out_pdf whose file exists is sent;
\* otherwise 404.
Download(db, files, order_id) ==
    IF \E i \in 1..Len(db) : /\ db[i].order_id = order_id
                             /\ db[i].out_pdf
                             /\ OutPdfName(order_id) \in DOMAIN files
    THEN [http |-> 200, body |-> files[OutPdfName(order_id)]]
    ELSE [http |-> 404, body |-> <<>>]

\* every order marked ready has a document that download returns
ReadyImpliesFetchable ==
    \A i \in OrderIdx :
        orders[i].status = "ready" => Download(orders, outFiles, orders[i].order_id).http = 200

====
